---- MODULE Spec2Model ----
(***************************************************************************)
(* Orchestration engine of the multi-agent data-analysis workflow:         *)
(* the shared state (state.py), the node wrappers agent_node,              *)
(* note_agent_node, human_choice_node and human_review_node (node.py) and  *)
(* the routers (router.py).                                                *)
(*                                                                         *)
(* A text is a sequence of tokens; a token is an indivisible run of        *)
(* characters.  A Python dict is a record that carries the set `present`   *)
(* of the keys it holds; a key that is not present holds a fixed filler.   *)
(* A value stored in a scratch field is either a str (role "str") or a     *)
(* message object (role "ai" / "human").  The supervisor chain of          *)
(* create_agent.py is kept in the variable `supervisor`.                   *)
(***************************************************************************)
EXTENDS Integers, Sequences, FiniteSets, TLC

VARIABLES state, prev, last, run, steps, route, supervisor

vars == <<state, prev, last, run, steps, route, supervisor>>

-----------------------------------------------------------------------------
(* Bounds of the model *)

MaxSteps == 2

LongLen == 7

MaxMembers == 2

-----------------------------------------------------------------------------
(* Text *)

Whitespace == {" ", "\n"}

RECURSIVE LStrip(_)
LStrip(t) ==
    IF t = <<>> THEN <<>>
    ELSE IF Head(t) \in Whitespace THEN LStrip(Tail(t))
    ELSE t

RECURSIVE RStrip(_)
RStrip(t) ==
    IF t = <<>> THEN <<>>
    ELSE IF t[Len(t)] \in Whitespace THEN RStrip(SubSeq(t, 1, Len(t) - 1))
    ELSE t

\* a strip that was left out
NoStrip(t) == t

\* str.strip()
Strip(t) == RStrip(LStrip(t))

\* str.lower(), token by token
LowerTok(c) ==
    CASE c = "REVISION" -> "revision"
      [] c = "NEEDED" -> "needed"
      [] c = "Revision" -> "revision"
      [] c = "YES" -> "yes"
      [] c = "No" -> "no"
      [] c = "Human" -> "human"
      [] OTHER -> c

Lower(t) == [i \in 1..Len(t) |-> LowerTok(t[i])]

\* pat in t (contiguous)
Contains(t, pat) ==
    \E i \in 0..(Len(t) - Len(pat)) :
        \A j \in 1..Len(pat) : t[i + j] = pat[j]

-----------------------------------------------------------------------------
(* Values: str and message objects *)

Str(t) == [role |-> "str", content |-> t, name |-> ""]

AIMessage(content, name) == [role |-> "ai", content |-> content, name |-> name]

HumanMessage(content) == [role |-> "human", content |-> content, name |-> ""]

IsAIMessage(v) == v.role = "ai"

IsStr(v) == v.role = "str"

\* a dict with the one member key: val (val a str)
Dict(key, val) == [role |-> "dict", content |-> val, name |-> key]

IsDict(v) == v.role = "dict"

\* str(x): a str is itself, a dict prints its member, a message object
\* prints its fields
PyStr(v) ==
    IF v.role = "str" THEN v
    ELSE IF v.role = "dict"
    THEN Str(<<"{", "'", v.name, "'", ":", " ", "'">> \o v.content \o <<"'", "}">>)
    ELSE IF v.name = "" THEN Str(<<"content='">> \o v.content \o <<"'">>)
    ELSE Str(<<"content='">> \o v.content \o <<"'", " ", "name='", v.name, "'">>)

\* truth value of a stored value: an empty str is false, any object is true
Truthy(v) == IF v.role = "str" THEN v.content # <<>> ELSE TRUE

-----------------------------------------------------------------------------
(* The state dict *)

ScratchKeys ==
    {"hypothesis", "process", "process_decision", "visualization_state",
     "searcher_state", "code_state", "report_section", "quality_review"}

AllKeys == ScratchKeys \cup {"messages", "needs_revision", "sender"}

Has(s, k) == k \in s.present

\* state.get(k, d)
Get(s, k, d) == IF Has(s, k) THEN s[k] ELSE d

\* a dict holding only the given message list ("last_sender" is a key no
\* State declares; the revision routing reads it)
OnlyMessages(msgs) ==
    [messages |-> msgs,
     hypothesis |-> Str(<<>>), process |-> Str(<<>>),
     process_decision |-> Str(<<>>), visualization_state |-> Str(<<>>),
     searcher_state |-> Str(<<>>), code_state |-> Str(<<>>),
     report_section |-> Str(<<>>), quality_review |-> Str(<<>>),
     needs_revision |-> FALSE, sender |-> "", last_sender |-> "",
     present |-> {"messages"}]

\* State with every declared default
FullState(msgs) == [OnlyMessages(msgs) EXCEPT !.present = AllKeys]

\* d[k] = v
SetKey(s, k, v) == [s EXCEPT ![k] = v, !.present = @ \cup {k}]

-----------------------------------------------------------------------------
(* router.py *)

\* the text a one-token decision names
TokenOf(t) == IF Len(t) = 1 THEN t[1] ELSE ""

hypothesis_router(s) ==
    LET hypothesis_content ==
            IF ~Has(s, "hypothesis") THEN <<>>
            ELSE IF IsAIMessage(s.hypothesis) THEN s.hypothesis.content
            ELSE IF IsStr(s.hypothesis) THEN s.hypothesis.content
            ELSE <<>>
    IN  IF Strip(hypothesis_content) = <<>> THEN "Hypothesis" ELSE "Process"

\* a route table that lost its last entry
RevisionRoutesWithoutReport == {"Visualization", "Search", "Coder"}

RevisionRoutes == {"Visualization", "Search", "Coder", "Report"}

\* a revision test that folds the case of the latest message
RevisionConditionAnyCase(s) ==
    LET messages == Get(s, "messages", <<>>)
    IN  \/ /\ messages # <<>>
           /\ Contains(Lower(messages[Len(messages)].content), <<"revision">>)
        \/ Get(s, "needs_revision", FALSE)

\* the revision test of QualityReview_router
RevisionCondition(s) ==
    LET messages == Get(s, "messages", <<>>)
    IN  \/ /\ messages # <<>>
           /\ Contains(messages[Len(messages)].content, <<"REVISION">>)
        \/ Get(s, "needs_revision", FALSE)

\* "RAISE": the call ends in an exception the router does not catch
QualityReview_router(s) ==
    IF RevisionCondition(s)
    THEN LET previous_node == Get(s, "last_sender", "")
         IN  IF previous_node \in RevisionRoutes THEN previous_node ELSE "NoteTaker"
    ELSE LET pd == Get(s, "process_decision", Str(<<>>))
             process_decision == pd.content
         IN  IF IsDict(pd)
             THEN \* line 79: a dict is unhashable, `in` raises TypeError
                  "RAISE"
             ELSE IF process_decision = <<>> \/ process_decision = <<"Error">>
             THEN "NoteTaker"
             ELSE IF TokenOf(process_decision) \in
                        {"Visualization", "Search", "Coder", "Report", "QualityReview"}
             THEN TokenOf(process_decision)
             ELSE "NoteTaker"

\* quotes left as they are
KeepQuotes(t) == t

\* content.replace("'", '"')
ReplaceQuotes(t) == [i \in 1..Len(t) |-> IF t[i] = "'" THEN "\"" ELSE t[i]]

NotWhitespace(c) == c \notin Whitespace

Digits == {"0", "1", "7"}

JsonErr == [kind |-> "err", key |-> "", vkind |-> "none", val |-> ""]

\* json.loads on the documents the tokens can spell: a number, a string, an
\* object with at most one member; anything else is a JSONDecodeError
JsonLoads(t) ==
    LET u == SelectSeq(t, NotWhitespace)
        n == Len(u)
        q == "\""
        plain(c) == c \notin {q, "{", "}", ":", "'"}
    IN  IF n = 1 /\ u[1] \in Digits
        THEN [kind |-> "num", key |-> "", vkind |-> "none", val |-> u[1]]
        ELSE IF n = 3 /\ u[1] = q /\ plain(u[2]) /\ u[3] = q
        THEN [kind |-> "str", key |-> "", vkind |-> "none", val |-> u[2]]
        ELSE IF n = 2 /\ u[1] = "{" /\ u[2] = "}"
        THEN [kind |-> "obj", key |-> "", vkind |-> "none", val |-> ""]
        ELSE IF /\ n = 7 /\ u[1] = "{" /\ u[2] = q /\ plain(u[3]) /\ u[4] = q
                /\ u[5] = ":" /\ u[6] \in Digits /\ u[7] = "}"
        THEN [kind |-> "obj", key |-> u[3], vkind |-> "num", val |-> u[6]]
        ELSE IF /\ n = 9 /\ u[1] = "{" /\ u[2] = q /\ plain(u[3]) /\ u[4] = q
                /\ u[5] = ":" /\ u[6] = q /\ plain(u[7]) /\ u[8] = q /\ u[9] = "}"
        THEN [kind |-> "obj", key |-> u[3], vkind |-> "str", val |-> u[7]]
        ELSE JsonErr

ProcessDecisions == {"Coder", "Search", "Visualization", "Report"}

\* the tail of process_router, on a decision that is a str
RouteDecision(process_decision) ==
    IF TokenOf(process_decision) \in ProcessDecisions THEN TokenOf(process_decision)
    ELSE IF process_decision = <<"FINISH">> THEN "END"
    ELSE "Process"

\* "RAISE": the call ends in an exception the router does not catch
process_router(s) ==
    LET pd == Get(s, "process_decision", Str(<<>>))
    IN  IF IsAIMessage(pd)
        THEN LET doc == JsonLoads(ReplaceQuotes(pd.content))
             IN  IF doc.kind = "err" THEN RouteDecision(pd.content)
                 ELSE IF doc.kind # "obj" THEN "RAISE"
                 ELSE IF doc.key # "next" THEN RouteDecision(<<>>)
                 ELSE IF doc.vkind = "str" THEN RouteDecision(<<doc.val>>)
                 ELSE "Process"
        ELSE IF IsDict(pd)
        THEN IF pd.name = "next" THEN RouteDecision(pd.content)
             ELSE RouteDecision(<<>>)
        ELSE RouteDecision(PyStr(pd).content)

-----------------------------------------------------------------------------
(* node.py *)

\* A node call yields the dict object it was given, as the call left it
\* (obj), the value it returned (ret; none = TRUE for None), and how it
\* ended: "ok", "error" (an except branch returned), "interrupt" (None
\* returned on an interrupt) or "raise" (the exception left the function).
Outcome(obj, ret, how, sent) ==
    [obj |-> obj, ret |-> ret, how |-> how, sent |-> sent]

\* the scratch field each recognized agent name writes
FieldOf(name) ==
    CASE name = "hypothesis_agent" -> "hypothesis"
      [] name = "process_agent" -> "process_decision"
      [] name = "visualization_agent" -> "visualization_state"
      [] name = "searcher_agent" -> "searcher_state"
      [] name = "report_agent" -> "report_section"
      [] name = "quality_review_agent" -> "quality_review"
      [] OTHER -> ""

\* lines 49-52: what the except branch returns
AgentErrorReturn(detail, name) ==
    OnlyMessages(<<AIMessage(<<"Error: ">> \o detail, name)>>)

\* a hypothesis agent that writes every time
HypothesisAlwaysFree(s) == TRUE

\* line 27: the hypothesis agent writes only over a false value
HypothesisIsFree(s) == ~Truthy(s.hypothesis)

\* a marker test that always finds the marker
RevisionAlwaysNeeded(output) == TRUE

\* a marker test that does not fold the case
RevisionNeededExactCase(output) == Contains(output, <<"revision", " ", "needed">>)

\* line 44
RevisionNeeded(output) == Contains(Lower(output), <<"revision", " ", "needed">>)

\* result: [kind |-> "raise", text |-> the exception's text]
\*         [kind |-> "dict", text |-> result["output"]]
\*         [kind |-> "other", text |-> str(result)]
agent_node(s, result, name) ==
    IF result.kind = "raise"
    THEN Outcome(s, AgentErrorReturn(result.text, name), "error", s.messages)
    ELSE
      LET output == result.text
          ai_message == AIMessage(output, name)
          s1 == SetKey([s EXCEPT !.messages = Append(@, ai_message)], "sender", name)
      IN  IF name = "hypothesis_agent"
          THEN IF ~Has(s1, "hypothesis")
               THEN \* state["hypothesis"] raises KeyError
                    Outcome(s1, AgentErrorReturn(<<"'hypothesis'">>, name), "error",
                            s.messages)
               ELSE IF HypothesisIsFree(s1)
               THEN LET s2 == SetKey(s1, "hypothesis", ai_message)
                    IN  Outcome(s2, s2, "ok", s.messages)
               ELSE Outcome(s1, s1, "ok", s.messages)
          ELSE IF name = "quality_review_agent"
          THEN LET s2 == SetKey(SetKey(s1, "quality_review", ai_message),
                                "needs_revision", RevisionNeeded(output))
               IN  Outcome(s2, s2, "ok", s.messages)
          ELSE IF FieldOf(name) # ""
          THEN LET s2 == SetKey(s1, FieldOf(name), ai_message)
               IN  Outcome(s2, s2, "ok", s.messages)
          ELSE Outcome(s1, s1, "ok", s.messages)

\* a choice "1" that leaves the hypothesis in place
ApplyChoiceKeepsHypothesis(s, choice) ==
    LET content == IF choice = <<"1">> THEN <<"Regenerate hypothesis">>
                   ELSE <<"Continue the research process">>
    IN  SetKey(SetKey([s EXCEPT !.messages = Append(@, HumanMessage(content))],
                      "sender", "human"),
               "process", Str(<<"Continue the research process">>))

\* lines 70-84, after the prompt loop accepted `choice`
ApplyChoice(s, choice) ==
    LET content == IF choice = <<"1">> THEN <<"Regenerate hypothesis">>
                   ELSE <<"Continue the research process">>
        s1 == SetKey([s EXCEPT !.messages = Append(@, HumanMessage(content))],
                     "sender", "human")
    IN  IF choice = <<"1">>
        THEN SetKey(s1, "hypothesis", Str(<<>>))
        ELSE SetKey(s1, "process", Str(<<"Continue the research process">>))

\* a prompt that takes the first line, whatever it is
HumanChoiceFirstLine(s, script) ==
    IF script = <<>>
    THEN Outcome(s, s, "raise", s.messages)
    ELSE LET s1 == ApplyChoice(s, Head(script))
         IN  Outcome(s1, s1, "ok", s.messages)

\* script: the lines input() returns, in order; when the script is used up
\* the next input() is interrupted (KeyboardInterrupt)
RECURSIVE human_choice_node(_, _)
human_choice_node(s, script) ==
    IF script = <<>>
    THEN Outcome(s, s, "raise", s.messages)
    ELSE IF Head(script) \in {<<"1">>, <<"2">>}
    THEN LET s1 == ApplyChoice(s, Head(script))
         IN  Outcome(s1, s1, "ok", s.messages)
    ELSE human_choice_node(s, Tail(script))

\* a request loop that takes the first line, empty or not
ReviewRequestAcceptsEmpty(s, script) ==
    IF script = <<>>
    THEN Outcome(s, s, "interrupt", s.messages)
    ELSE LET s1 == SetKey(
                     SetKey([s EXCEPT !.messages =
                                Append(@, HumanMessage(Strip(Head(script))))],
                            "needs_revision", TRUE),
                     "sender", "human")
         IN  Outcome(s1, s1, "ok", s.messages)

\* lines 192-198: the request loop
RECURSIVE ReviewRequest(_, _)
ReviewRequest(s, script) ==
    IF script = <<>>
    THEN Outcome(s, s, "interrupt", s.messages)
    ELSE LET additional_request == Strip(Head(script))
         IN  IF additional_request # <<>>
             THEN LET s1 == SetKey(
                          SetKey([s EXCEPT !.messages =
                                     Append(@, HumanMessage(additional_request))],
                                 "needs_revision", TRUE),
                          "sender", "human")
                  IN  Outcome(s1, s1, "ok", s.messages)
             ELSE ReviewRequest(s, Tail(script))

RECURSIVE human_review_node(_, _)
human_review_node(s, script) ==
    IF script = <<>>
    THEN Outcome(s, s, "interrupt", s.messages)
    ELSE LET user_input == Lower(Head(script))
         IN  IF user_input = <<"yes">>
             THEN ReviewRequest(s, Tail(script))
             ELSE IF user_input = <<"no">>
             THEN LET s1 == SetKey(SetKey(s, "needs_revision", FALSE),
                                   "sender", "human")
                  IN  Outcome(s1, s1, "ok", s.messages)
             ELSE human_review_node(s, Tail(script))

\* a split that starts one message early
NeedsSplitAtSix(current_messages) == Len(current_messages) > 5

\* line 106
NeedsSplit(current_messages) == Len(current_messages) > 6

\* lines 107-109
HeadOf(current_messages) == SubSeq(current_messages, 1, 2)

TailOf(current_messages) ==
    SubSeq(current_messages, Len(current_messages) - 1, Len(current_messages))

MiddleOf(current_messages) == SubSeq(current_messages, 3, Len(current_messages) - 2)

\* lines 86-94; msg: [type |-> text, content |-> text]
create_message(msg, name) ==
    IF Lower(msg.type) = <<"human">> THEN HumanMessage(msg.content)
    ELSE AIMessage(msg.content, name)

\* a merge that keeps an absent field as its repr(), quotes included
MergedFieldRepr(doc, s, k) ==
    IF k \in doc.present THEN Str(doc.vals[k])
    ELSE Str(<<"'">> \o PyStr(Get(s, k, Str(<<>>))).content \o <<"'">>)

\* str(parsed_output.get(k, state.get(k, ""))) for a scratch key k
MergedField(doc, s, k) ==
    IF k \in doc.present THEN Str(doc.vals[k])
    ELSE PyStr(Get(s, k, Str(<<>>)))

\* lines 120-124
CombinedMessages(doc, name, current_messages, head_messages, tail_messages) ==
    LET raw == IF "messages" \in doc.present THEN doc.messages ELSE <<>>
        new_messages == [i \in 1..Len(raw) |-> create_message(raw[i], name)]
        messages == IF new_messages # <<>> THEN new_messages ELSE current_messages
    IN  head_messages \o messages \o tail_messages

\* lines 126-138
UpdatedState(doc, s, combined_messages) ==
    [messages |-> combined_messages,
     hypothesis |-> MergedField(doc, s, "hypothesis"),
     process |-> MergedField(doc, s, "process"),
     process_decision |-> MergedField(doc, s, "process_decision"),
     visualization_state |-> MergedField(doc, s, "visualization_state"),
     searcher_state |-> MergedField(doc, s, "searcher_state"),
     code_state |-> MergedField(doc, s, "code_state"),
     report_section |-> MergedField(doc, s, "report_section"),
     quality_review |-> MergedField(doc, s, "quality_review"),
     needs_revision |-> IF "needs_revision" \in doc.present THEN doc.needs_revision
                        ELSE Get(s, "needs_revision", FALSE),
     sender |-> "note_agent",
     last_sender |-> "",
     present |-> AllKeys]

\* lines 155-173
CreateErrorState(s, error_message) ==
    [messages |-> Get(s, "messages", <<>>) \o <<error_message>>,
     hypothesis |-> PyStr(Get(s, "hypothesis", Str(<<>>))),
     process |-> PyStr(Get(s, "process", Str(<<>>))),
     process_decision |-> PyStr(Get(s, "process_decision", Str(<<>>))),
     visualization_state |-> PyStr(Get(s, "visualization_state", Str(<<>>))),
     searcher_state |-> PyStr(Get(s, "searcher_state", Str(<<>>))),
     code_state |-> PyStr(Get(s, "code_state", Str(<<>>))),
     report_section |-> PyStr(Get(s, "report_section", Str(<<>>))),
     quality_review |-> PyStr(Get(s, "quality_review", Str(<<>>))),
     needs_revision |-> Get(s, "needs_revision", FALSE),
     sender |-> "note_agent",
     last_sender |-> "",
     present |-> AllKeys]

\* lines 143-153: the message of each except branch
NoteErrorMessage(reply, name) ==
    CASE reply.kind = "badjson" ->
            AIMessage(<<"Error parsing output: ">> \o reply.text, name)
      [] reply.kind = "ise" ->
            AIMessage(<<"OpenAI Error: ">> \o reply.text, name)
      [] reply.kind = "nondict" ->
            AIMessage(<<"Unexpected error: ", "'list' object has no attribute 'get'">>,
                      name)
      [] OTHER ->
            AIMessage(<<"Unexpected error: ">> \o reply.text, name)

\* reply: what agent.invoke and json.loads make of the call
\*   [kind |-> "ise"]      invoke raises InternalServerError(text)
\*   [kind |-> "exc"]      invoke raises another Exception(text)
\*   [kind |-> "badjson"]  the output `text` is not JSON
\*   [kind |-> "nondict"]  the output parses to a list
\*   [kind |-> "dict"]     the output parses to the object `doc`
note_agent_node(s, reply, name) ==
    LET current_messages == Get(s, "messages", <<>>)
        split == NeedsSplit(current_messages)
        head_messages == IF split THEN HeadOf(current_messages) ELSE <<>>
        tail_messages == IF split THEN TailOf(current_messages) ELSE <<>>
        \* line 109 rebinds `state`
        s1 == IF split THEN SetKey(s, "messages", MiddleOf(current_messages)) ELSE s
        sent == Get(s1, "messages", <<>>)
    IN  IF reply.kind = "dict"
        THEN Outcome(s,
                     UpdatedState(reply.doc, s1,
                         CombinedMessages(reply.doc, name, current_messages,
                                          head_messages, tail_messages)),
                     "ok", sent)
        ELSE Outcome(s, CreateErrorState(s1, NoteErrorMessage(reply, name)),
                     "error", sent)

-----------------------------------------------------------------------------
(* The workflow: one node at a time, in any order the routing may take *)

\* The caller's state after a node call: the object the node was given, as
\* the call left it, with every key of the returned dict written over it.
Commit(obj, ret) ==
    LET pick(k) == IF k \in ret.present THEN ret[k] ELSE obj[k]
    IN  [messages |-> pick("messages"),
         hypothesis |-> pick("hypothesis"),
         process |-> pick("process"),
         process_decision |-> pick("process_decision"),
         visualization_state |-> pick("visualization_state"),
         searcher_state |-> pick("searcher_state"),
         code_state |-> pick("code_state"),
         report_section |-> pick("report_section"),
         quality_review |-> pick("quality_review"),
         needs_revision |-> pick("needs_revision"),
         sender |-> pick("sender"),
         last_sender |-> pick("last_sender"),
         present |-> obj.present \cup ret.present]

AgentNames ==
    {"hypothesis_agent", "process_agent", "visualization_agent", "searcher_agent",
     "code_agent", "report_agent", "quality_review_agent"}

NoteName == "note_agent"

Outputs ==
    {<<>>, <<" ">>, <<"X">>, <<" ", "X", "\n">>, <<"Coder">>,
     <<"Revision", " ", "NEEDED">>, <<"revision", " ", "needed">>}

AgentResults ==
    {[kind |-> "raise", text |-> <<"boom">>]}
    \cup {[kind |-> "dict", text |-> o] : o \in Outputs}
    \cup {[kind |-> "other", text |-> <<"X">>]}

NoVals == [k \in ScratchKeys |-> <<>>]

EmptyDoc ==
    [present |-> {}, messages |-> <<>>, vals |-> NoVals, needs_revision |-> FALSE]

NoteDocs ==
    { EmptyDoc,
      [EmptyDoc EXCEPT !.present = {"messages"}],
      [EmptyDoc EXCEPT !.present = {"messages"},
                       !.messages = <<[type |-> <<"ai">>, content |-> <<"S">>]>>],
      [EmptyDoc EXCEPT !.present = {"messages", "hypothesis"},
                       !.messages = <<[type |-> <<"Human">>, content |-> <<"Q">>],
                                      [type |-> <<>>, content |-> <<"S">>]>>,
                       !.vals = [NoVals EXCEPT !["hypothesis"] = <<"H">>]],
      [EmptyDoc EXCEPT !.present = {"hypothesis", "needs_revision"},
                       !.vals = [NoVals EXCEPT !["hypothesis"] = <<" ">>],
                       !.needs_revision = TRUE] }

NoteReplies ==
    {[kind |-> k, text |-> <<"boom">>, doc |-> EmptyDoc] : k \in {"ise", "exc"}}
    \cup {[kind |-> "badjson", text |-> <<"not json">>, doc |-> EmptyDoc],
          [kind |-> "nondict", text |-> <<"[", "]">>, doc |-> EmptyDoc]}
    \cup {[kind |-> "dict", text |-> <<>>, doc |-> d] : d \in NoteDocs}

ChoiceScripts == {<<>>, <<<<"1">>>>, <<<<"2">>>>, <<<<"x">>, <<"2">>>>, <<<<"x">>>>}

ReviewScripts ==
    { <<>>, <<<<"no">>>>, <<<<"x">>, <<"No">>>>, <<<<"yes">>>>,
      <<<<"YES">>, <<>>, <<" ">>, <<" ", "more", " ">>>>,
      <<<<"yes">>, <<"more">>>>,
      <<<<"yes">>, <<" ">>, <<"more", " ">>>> }

MsgToks == <<"m1", "m2", "m3", "m4", "m5", "m6", "m7", "m8", "m9", "m10", "m11", "m12">>

\* a history of n distinct messages
History(n) ==
    [i \in 1..n |-> IF i = 1 THEN HumanMessage(<<MsgToks[i]>>)
                    ELSE AIMessage(<<MsgToks[i]>>, "process_agent")]

\* the states a run starts from: every declared field at its default, over
\* an empty, a short and a long history; or only the message list
InitStates ==
    {FullState(History(n)) : n \in {0, 6, LongLen}}
    \cup {OnlyMessages(History(1))}

NoRoute == [router |-> "", result |-> ""]

\* no supervisor chain was created
NoSupervisor ==
    [members |-> <<>>, built |-> FALSE, options |-> <<>>, invoked |-> FALSE,
     chosen |-> "", output |-> Dict("", <<>>)]

NoCall ==
    [op |-> "init", name |-> "", kind |-> "", text |-> <<>>, doc |-> EmptyDoc,
     script |-> <<>>, how |-> "", obj |-> FullState(<<>>), ret |-> FullState(<<>>),
     sent |-> <<>>]

Init ==
    /\ state \in InitStates
    /\ prev = state
    /\ last = NoCall
    /\ run = "running"
    /\ steps = 0
    /\ route = NoRoute
    /\ supervisor = NoSupervisor

CanStep == run = "running" /\ steps < MaxSteps

AgentNode ==
    /\ CanStep
    /\ \E name \in AgentNames, result \in AgentResults :
         LET o == agent_node(state, result, name)
         IN  /\ state' = Commit(o.obj, o.ret)
             /\ last' = [NoCall EXCEPT !.op = "agent_node", !.name = name,
                                       !.kind = result.kind, !.text = result.text,
                                       !.how = o.how, !.obj = o.obj, !.ret = o.ret,
                                       !.sent = o.sent]
    /\ prev' = state
    /\ steps' = steps + 1
    /\ run' = run
    /\ route' = route
    /\ supervisor' = supervisor

NoteAgentNode ==
    /\ CanStep
    /\ \E reply \in NoteReplies :
         LET o == note_agent_node(state, reply, NoteName)
         IN  /\ state' = Commit(o.obj, o.ret)
             /\ last' = [NoCall EXCEPT !.op = "note_agent_node", !.name = NoteName,
                                       !.kind = reply.kind, !.text = reply.text,
                                       !.doc = reply.doc,
                                       !.how = o.how, !.obj = o.obj, !.ret = o.ret,
                                       !.sent = o.sent]
    /\ prev' = state
    /\ steps' = steps + 1
    /\ run' = run
    /\ route' = route
    /\ supervisor' = supervisor

HumanChoiceNode ==
    /\ CanStep
    /\ \E script \in ChoiceScripts :
         LET o == human_choice_node(state, script)
         IN  /\ state' = o.obj
             /\ last' = [NoCall EXCEPT !.op = "human_choice_node", !.script = script,
                                       !.how = o.how, !.obj = o.obj, !.ret = o.ret,
                                       !.sent = o.sent]
             /\ run' = IF o.how = "raise" THEN "crashed" ELSE run
    /\ prev' = state
    /\ steps' = steps + 1
    /\ route' = route
    /\ supervisor' = supervisor

HumanReviewNode ==
    /\ CanStep
    /\ \E script \in ReviewScripts :
         LET o == human_review_node(state, script)
         IN  /\ state' = o.obj
             /\ last' = [NoCall EXCEPT !.op = "human_review_node", !.script = script,
                                       !.how = o.how, !.obj = o.obj, !.ret = o.ret,
                                       !.sent = o.sent]
             /\ run' = IF o.how = "interrupt" THEN "aborted" ELSE run
    /\ prev' = state
    /\ steps' = steps + 1
    /\ route' = route
    /\ supervisor' = supervisor

Next == AgentNode \/ NoteAgentNode \/ HumanChoiceNode \/ HumanReviewNode

Spec == Init /\ [][Next]_vars

-----------------------------------------------------------------------------
(* The routers as functions of the state: any state, one evaluation at a time *)

RouterHypotheses ==
    {Str(<<>>), Str(<<" ">>), AIMessage(<<" ", "H">>, "hypothesis_agent")}

DecisionTexts ==
    {<<>>, <<"Error">>, <<"Coder">>, <<"Search">>, <<"Visualization">>, <<"Report">>,
     <<"QualityReview">>, <<"FINISH">>, <<"gibberish">>}

\* {'next': 'd'} and {"next": "d"}
SingleQuoted(key, d) == <<"{", "'", key, "'", ":", " ", "'", d, "'", "}">>

DoubleQuoted(key, d) == <<"{", "\"", key, "\"", ":", " ", "\"", d, "\"", "}">>

StructuredTexts ==
    {SingleQuoted("next", d) : d \in {"Coder", "Report", "FINISH", "gibberish"}}
    \cup {DoubleQuoted("next", d) : d \in {"Search", "Visualization", "FINISH"}}
    \cup {SingleQuoted("other", "Coder"),
          <<"{", "\"", "next", "\"", ":", " ", "7", "}">>,
          <<"{", "}">>, <<"7">>, <<"\"", "Coder", "\"">>}

\* process_decision: absent, a str, an agent message, a dict
RouterDecisions ==
    {[has |-> FALSE, v |-> Str(<<>>)]}
    \cup {[has |-> TRUE, v |-> Str(t)] : t \in DecisionTexts}
    \cup {[has |-> TRUE, v |-> AIMessage(t, "process_agent")] :
              t \in DecisionTexts \cup StructuredTexts}
    \cup {[has |-> TRUE, v |-> Dict("next", <<d>>)] :
              d \in {"Coder", "Search", "Visualization", "Report", "FINISH", "gibberish"}}
    \cup {[has |-> TRUE, v |-> Dict("other", <<"Coder">>)]}

RouterLastSenders ==
    {[has |-> FALSE, v |-> ""]}
    \cup {[has |-> TRUE, v |-> n] :
              n \in {"Visualization", "Search", "Coder", "Report", "Unknown",
                     "coder_agent"}}

RouterHistories ==
    { <<>>,
      <<HumanMessage(<<"m1">>)>>,
      <<HumanMessage(<<"m1">>),
        AIMessage(<<"REVISION", " ", "NEEDED">>, "quality_review_agent")>>,
      <<HumanMessage(<<"m1">>),
        AIMessage(<<"revision", " ", "needed">>, "quality_review_agent")>>,
      <<AIMessage(<<"REVISION">>, "quality_review_agent"),
        AIMessage(<<"X">>, "report_agent")>> }

RouterState(msgs, h, pd, nr, ls) ==
    [FullState(msgs) EXCEPT
        !.hypothesis = h,
        !.process_decision = pd.v,
        !.needs_revision = nr,
        !.last_sender = ls.v,
        !.present = (AllKeys \ (IF pd.has THEN {} ELSE {"process_decision"}))
                    \cup (IF ls.has THEN {"last_sender"} ELSE {})]

RouterStates ==
    {RouterState(msgs, h, pd, nr, ls) :
        msgs \in RouterHistories, h \in RouterHypotheses, pd \in RouterDecisions,
        nr \in BOOLEAN, ls \in RouterLastSenders}

RouterInit ==
    /\ state \in RouterStates
    /\ prev = state
    /\ last = NoCall
    /\ run = "running"
    /\ steps = 0
    /\ route = NoRoute
    /\ supervisor = NoSupervisor

\* a router that writes the node it chose into the state
RoutedStoring(router, result) ==
    /\ route' = [router |-> router, result |-> result]
    /\ state' = SetKey(state, "process_decision", Str(<<result>>))
    /\ UNCHANGED <<prev, last, run, steps, supervisor>>

Routed(router, result) ==
    /\ route' = [router |-> router, result |-> result]
    /\ UNCHANGED <<state, prev, last, run, steps, supervisor>>

RouteHypothesis == Routed("hypothesis_router", hypothesis_router(state))

RouteQualityReview == Routed("QualityReview_router", QualityReview_router(state))

RouteProcess == Routed("process_router", process_router(state))

RouterNext == RouteHypothesis \/ RouteQualityReview \/ RouteProcess

RouterSpec == RouterInit /\ [][RouterNext]_vars

-----------------------------------------------------------------------------
(* create_agent.py: the supervisor chain, for any team *)

\* the values offered without the sentinel
MembersOnly(members) == members

\* line 90
SupervisorOptions(members) == <<"FINISH">> \o members

\* lines 91-107: the schema of the function the capability must call
FunctionDef(options) == [name |-> "route", enum |-> options, required |-> {"next"}]

TeamNames == {"Coder", "Search", "Visualization", "Report"}

Teams == UNION {[1..n -> TeamNames] : n \in 0..MaxMembers}

\* what the capability may answer: an offered value or any other text
CapabilityValues == TeamNames \cup {"FINISH", "Nobody"}

SupervisorInit ==
    /\ supervisor \in {[NoSupervisor EXCEPT !.members = m] : m \in Teams}
    /\ state = FullState(<<>>)
    /\ prev = state
    /\ last = NoCall
    /\ run = "running"
    /\ steps = 0
    /\ route = NoRoute

\* lines 88-124: build the chain
create_supervisor ==
    /\ ~supervisor.built
    /\ supervisor' =
          [supervisor EXCEPT
              !.built = TRUE,
              !.options = FunctionDef(SupervisorOptions(supervisor.members)).enum]
    /\ UNCHANGED <<state, prev, last, run, steps, route>>

\* lines 120-124: the chain hands the arguments of the capability's function
\* call to the caller
InvokeSupervisor ==
    /\ supervisor.built
    /\ \E v \in CapabilityValues :
          supervisor' = [supervisor EXCEPT !.invoked = TRUE, !.chosen = v,
                                           !.output = Dict("next", <<v>>)]
    /\ UNCHANGED <<state, prev, last, run, steps, route>>

SupervisorNext == create_supervisor \/ InvokeSupervisor

SupervisorSpec == SupervisorInit /\ [][SupervisorNext]_vars

-----------------------------------------------------------------------------
(* Properties *)

\* the text a stored value carries: a str is its own text, a message object
\* carries its content
TextOf(v) == v.content

HasVisibleText(t) == \E i \in 1..Len(t) : t[i] \notin Whitespace

IsPrefix(a, b) == Len(a) <= Len(b) /\ SubSeq(b, 1, Len(a)) = a

SameScratch(a, b) == \A k \in ScratchKeys : a[k] = b[k]

AgentRaised == last.op = "agent_node" /\ last.kind = "raise"

AgentFailed == last.op = "agent_node" /\ last.how = "error"

NoteFailed == last.op = "note_agent_node" /\ last.how = "error"

NoteSucceeded == last.op = "note_agent_node" /\ last.how = "ok"

\* the messages a parsed reply supplies
ReplyCount == IF "messages" \in last.doc.present THEN Len(last.doc.messages) ELSE 0

\* msgs[from + 1 .. from + ReplyCount] are the reply's messages, in order
HoldsReplyAt(msgs, from) ==
    /\ Len(msgs) >= from + ReplyCount
    /\ \A i \in 1..ReplyCount :
         /\ msgs[from + i].content = last.doc.messages[i].content
         /\ (msgs[from + i].role = "human")
                <=> (Lower(last.doc.messages[i].type) = <<"human">>)

\* C1: when the capability invoked by agent_node raises, the resulting
\* history has len(messages)+1 entries and every scratch field and
\* needs_revision keep their values.
C1_RaiseAppendsOneMessage ==
    AgentRaised =>
        /\ Len(state.messages) = Len(prev.messages) + 1
        /\ SameScratch(state, prev)
        /\ state.needs_revision = prev.needs_revision

\* C2: an agent_node step that ends in its except branch leaves none of the
\* normal updates behind: the state it was given holds no appended agent
\* message, sender is unchanged and no scratch field is written.
C2_NoPartialUpdate ==
    AgentFailed =>
        /\ last.obj.messages = prev.messages
        /\ state.sender = prev.sender
        /\ SameScratch(state, prev)
        /\ state.needs_revision = prev.needs_revision

\* C3: agent_node and note_agent_node return normally for every capability
\* behaviour, and return a complete state on which every router yields a node.
C3_ReturnsCompleteState ==
    last.op \in {"agent_node", "note_agent_node"} =>
        /\ last.how \in {"ok", "error"}
        /\ AllKeys \subseteq last.ret.present
        /\ hypothesis_router(last.ret) \in {"Hypothesis", "Process"}
        /\ QualityReview_router(last.ret) # "RAISE"
        /\ process_router(last.ret) # "RAISE"

\* C4: a failed note_agent_node returns the whole prior history plus one
\* diagnostic message, the text of every scratch field and needs_revision of
\* the prior state, and the compactor as sender, for every history length.
C4_NoteFailureKeepsState ==
    NoteFailed =>
        /\ Len(state.messages) = Len(prev.messages) + 1
        /\ IsPrefix(prev.messages, state.messages)
        /\ \A k \in ScratchKeys : TextOf(state[k]) = TextOf(prev[k])
        /\ state.needs_revision = prev.needs_revision
        /\ state.sender = "note_agent"

\* C5: over a history of more than 6 messages, the capability receives
\* messages[2:-2] and a parsed reply yields the first two messages, then
\* exactly the reply's messages, then the last two.
C5_LongHistoryMerge ==
    (last.op = "note_agent_node" /\ Len(prev.messages) > 6) =>
        /\ last.sent = SubSeq(prev.messages, 3, Len(prev.messages) - 2)
        /\ last.how = "ok" =>
              /\ Len(state.messages) = ReplyCount + 4
              /\ SubSeq(state.messages, 1, 2) = SubSeq(prev.messages, 1, 2)
              /\ HoldsReplyAt(state.messages, 2)
              /\ SubSeq(state.messages, ReplyCount + 3, ReplyCount + 4)
                    = SubSeq(prev.messages, Len(prev.messages) - 1, Len(prev.messages))

\* C6: over a history of at most 6 messages, the capability receives the full
\* history, and a parsed reply yields the reply's messages when it supplies a
\* non-empty list and the unchanged prior history when it supplies none.
C6_ShortHistoryUnsplit ==
    (last.op = "note_agent_node" /\ Len(prev.messages) <= 6) =>
        /\ last.sent = prev.messages
        /\ last.how = "ok" =>
              IF ReplyCount > 0
              THEN Len(state.messages) = ReplyCount /\ HoldsReplyAt(state.messages, 0)
              ELSE state.messages = prev.messages

C6_Witness ==
    /\ NoteSucceeded
    /\ Len(prev.messages) = 6
    /\ ReplyCount = 2
    /\ Len(state.messages) = 2

\* C7: after a successful note_agent_node, every scratch field absent from
\* the reply keeps its text, so hypothesis_router and process_router decide
\* as before.
C7_AbsentFieldsKeepText ==
    NoteSucceeded =>
        /\ \A k \in ScratchKeys \ last.doc.present :
              TextOf(state[k]) = TextOf(prev[k])
        /\ "hypothesis" \notin last.doc.present =>
              hypothesis_router(state) = hypothesis_router(prev)
        /\ "process_decision" \notin last.doc.present =>
              process_router(state) = process_router(prev)

\* C8: after every agent_node execution, every human checkpoint and every
\* failed note_agent_node execution the prior history is a prefix of the new
\* history.
C8_AppendOnly ==
    (\/ last.op \in {"agent_node", "human_choice_node", "human_review_node"}
     \/ NoteFailed)
        => IsPrefix(prev.messages, state.messages)

\* C9: hypothesis_router returns "Process" exactly when the hypothesis field
\* is there and its text (the content of a message object) has a character
\* that is not whitespace, and "Hypothesis" otherwise.
C9_HypothesisRouterIff ==
    \A s \in {state, last.ret} :
        /\ hypothesis_router(s) \in {"Process", "Hypothesis"}
        /\ hypothesis_router(s) = "Process"
              <=> (Has(s, "hypothesis") /\ HasVisibleText(TextOf(s.hypothesis)))

C9_Witness ==
    /\ Has(state, "hypothesis")
    /\ IsAIMessage(state.hypothesis)
    /\ state.hypothesis.content = <<" ">>
    /\ hypothesis_router(state) = "Hypothesis"
    /\ ~Has(last.ret, "hypothesis")
    /\ hypothesis_router(last.ret) = "Hypothesis"

\* C10: from a state where hypothesis_router returns "Hypothesis", one
\* successful agent_node execution of the hypothesis node makes
\* hypothesis_router return "Process", whatever the capability returned.
C10_HypothesisGeneratedOnce ==
    (/\ last.op = "agent_node"
     /\ last.name = "hypothesis_agent"
     /\ last.how = "ok"
     /\ hypothesis_router(prev) = "Hypothesis")
        => hypothesis_router(state) = "Process"

\* the latest message's content holds the literal REVISION, or needs_revision
\* is set
RevisionSignal ==
    \/ state.needs_revision
    \/ /\ state.messages # <<>>
       /\ \E i \in 1..Len(state.messages[Len(state.messages)].content) :
             state.messages[Len(state.messages)].content[i] = "REVISION"

RoutedBy(router) == route.router = router

\* C11: under a revision condition QualityReview_router returns last_sender
\* when it is Visualization, Search, Coder or Report, and NoteTaker for every
\* other or absent last_sender, whatever process_decision holds.
C11_RevisionRoutesToLastSender ==
    (RoutedBy("QualityReview_router") /\ RevisionSignal) =>
        route.result =
            IF /\ Has(state, "last_sender")
               /\ state.last_sender \in {"Visualization", "Search", "Coder", "Report"}
            THEN state.last_sender
            ELSE "NoteTaker"

C11_Witness ==
    /\ RoutedBy("QualityReview_router")
    /\ ~state.needs_revision
    /\ RevisionSignal
    /\ state.last_sender = "Report"
    /\ state.process_decision = Str(<<"Coder">>)
    /\ route.result = "Report"

\* C12: with no revision condition QualityReview_router returns the text of
\* process_decision when it is Visualization, Search, Coder, Report or
\* QualityReview, NoteTaker for every other value, and never raises.
C12_DecisionOrNoteTaker ==
    (RoutedBy("QualityReview_router") /\ ~RevisionSignal) =>
        /\ route.result # "RAISE"
        /\ route.result =
              IF /\ Has(state, "process_decision")
                 /\ ~IsDict(state.process_decision)
                 /\ \E d \in {"Visualization", "Search", "Coder", "Report",
                              "QualityReview"} :
                       TextOf(state.process_decision) = <<d>>
              THEN TextOf(state.process_decision)[1]
              ELSE "NoteTaker"

\* what the decision d routes to
DecisionTarget(d) ==
    IF d \in {"Coder", "Search", "Visualization", "Report"} THEN d
    ELSE IF d = "FINISH" THEN "END"
    ELSE "Process"

\* the representations that carry the decision d
Carries(v, d) ==
    \/ v = Str(<<d>>)
    \/ v = Dict("next", <<d>>)
    \/ IsAIMessage(v) /\ v.content = SingleQuoted("next", d)
    \/ IsAIMessage(v) /\ v.content = DoubleQuoted("next", d)

DecisionTokens ==
    {"Coder", "Search", "Visualization", "Report", "FINISH", "gibberish", "Error",
     "QualityReview"}

\* C13: process_router maps the decision carried by process_decision, as
\* plain text, as a dict with a `next` key or as an agent message whose
\* content is a single- or double-quoted object: Coder, Search, Visualization,
\* Report verbatim, FINISH to END, every other decision to Process.
C13_ProcessRouterMapping ==
    (RoutedBy("process_router") /\ Has(state, "process_decision")) =>
        \A d \in DecisionTokens :
            Carries(state.process_decision, d) => route.result = DecisionTarget(d)

C13_Witness ==
    /\ RoutedBy("process_router")
    /\ IsAIMessage(state.process_decision)
    /\ state.process_decision.content = SingleQuoted("next", "Coder")
    /\ route.result = "Coder"

\* C14: process_router is total: for every value of process_decision it
\* returns one of Coder, Search, Visualization, Report, Process, END.
C14_ProcessRouterTotal ==
    RoutedBy("process_router") =>
        route.result \in {"Coder", "Search", "Visualization", "Report", "Process", "END"}

NeedsRevisionSet == ~prev.needs_revision /\ state.needs_revision

ReviewFoundMarker ==
    /\ last.op = "agent_node"
    /\ last.name = "quality_review_agent"
    /\ last.how = "ok"
    /\ Contains(Lower(last.text), <<"revision", " ", "needed">>)

HumanAskedRevision == last.op = "human_review_node" /\ last.how = "ok"

\* the statement of C15 as claimed: needs_revision goes from false to true
\* only through a quality-review execution whose output holds the marker or a
\* human revision request.
C15_OnlyReviewSetsRevision ==
    NeedsRevisionSet => (ReviewFoundMarker \/ HumanAskedRevision)

\* C15: needs_revision goes from false to true only through a quality-review
\* execution whose output holds the marker, a human revision request, or a
\* successful note_agent_node whose parsed reply carries a true
\* needs_revision.
C15_RevisionSetters ==
    NeedsRevisionSet =>
        \/ ReviewFoundMarker
        \/ HumanAskedRevision
        \/ /\ NoteSucceeded
           /\ "needs_revision" \in last.doc.present
           /\ last.doc.needs_revision

C15_Witness ==
    /\ NeedsRevisionSet
    /\ NoteSucceeded
    /\ last.doc.needs_revision

AtCheckpoint == last.op \in {"human_choice_node", "human_review_node"}

\* C16: an interruption while a human checkpoint collects input makes it
\* return None, and the state it was given is left as it was.
C16_InterruptReturnsNone ==
    (AtCheckpoint /\ last.how # "ok") =>
        /\ last.how = "interrupt"
        /\ last.obj = prev
        /\ state = prev

\* the index of the first line of the script that satisfies ok
IsFirst(i, ok(_)) ==
    /\ i \in 1..Len(last.script)
    /\ ok(last.script[i])
    /\ \A j \in 1..(i - 1) : ~ok(last.script[j])

IsChoice(line) == line \in {<<"1">>, <<"2">>}

OthersKept(keys) == \A k \in ScratchKeys \ keys : state[k] = prev[k]

\* C17: at human_choice_node choice "1" clears hypothesis, so that
\* hypothesis_router returns "Hypothesis"; choice "2" sets process to the
\* continuation marker and leaves hypothesis as it was; both set sender to
\* "human" and change no other scratch field.
C17_ChoiceEffects ==
    (last.op = "human_choice_node" /\ last.how = "ok") =>
        \E i \in 1..Len(last.script) :
            /\ IsFirst(i, IsChoice)
            /\ state.sender = "human"
            /\ last.script[i] = <<"1">> =>
                  /\ Has(state, "hypothesis")
                  /\ TextOf(state.hypothesis) = <<>>
                  /\ hypothesis_router(state) = "Hypothesis"
                  /\ OthersKept({"hypothesis"})
            /\ last.script[i] = <<"2">> =>
                  /\ state.process = Str(<<"Continue the research process">>)
                  /\ OthersKept({"process"})

C17_Witness ==
    /\ last.op = "human_choice_node"
    /\ last.how = "ok"
    /\ last.script = <<<<"1">>>>
    /\ hypothesis_router(prev) = "Process"
    /\ hypothesis_router(state) = "Hypothesis"

IsYesNo(line) == Lower(line) \in {<<"yes">>, <<"no">>}

\* C18: at human_review_node "yes" followed by a non-empty request appends
\* one human message carrying the request and sets needs_revision; "no"
\* clears needs_revision and appends nothing; an empty request is never
\* committed; both set sender to "human" and keep every scratch field.
C18_ReviewEffects ==
    (last.op = "human_review_node" /\ last.how = "ok") =>
        \E i \in 1..Len(last.script) :
            /\ IsFirst(i, IsYesNo)
            /\ state.sender = "human"
            /\ SameScratch(state, prev)
            /\ IF Lower(last.script[i]) = <<"yes">>
               THEN /\ state.needs_revision
                    /\ Len(state.messages) = Len(prev.messages) + 1
                    /\ IsPrefix(prev.messages, state.messages)
                    /\ LET m == state.messages[Len(state.messages)]
                       IN  /\ m.role = "human"
                           /\ HasVisibleText(m.content)
                           /\ \E j \in (i + 1)..Len(last.script) :
                                 /\ m.content = Strip(last.script[j])
                                 /\ \A n \in (i + 1)..(j - 1) :
                                       ~HasVisibleText(last.script[n])
               ELSE /\ ~state.needs_revision
                    /\ state.messages = prev.messages

C18_Witness ==
    /\ last.op = "human_review_node"
    /\ last.how = "ok"
    /\ last.script = <<<<"yes">>, <<" ">>, <<"more", " ">>>>
    /\ state.needs_revision
    /\ state.messages = Append(prev.messages, HumanMessage(<<"more">>))

IsLiteralYesNo(line) == line \in {<<"yes">>, <<"no">>}

\* the checkpoint answered at the first line that satisfies ok, and the lines
\* before it left nothing behind; or it was never answered and the state is
\* as it was
AnsweredAtFirst(ok(_)) ==
    IF last.how = "ok"
    THEN /\ \E i \in 1..Len(last.script) : IsFirst(i, ok)
         /\ Len(state.messages) <= Len(prev.messages) + 1
         /\ IsPrefix(prev.messages, state.messages)
    ELSE state = prev

\* the statement of C19 as claimed: the binary choice accepts "1" and "2",
\* the revision prompt the literals "yes" and "no"; every other input causes
\* a re-prompt and the prompt is answered at the first input of the set.
C19_LiteralInputsOnly ==
    /\ last.op = "human_choice_node" => AnsweredAtFirst(IsChoice)
    /\ last.op = "human_review_node" => AnsweredAtFirst(IsLiteralYesNo)

\* C19: the binary choice accepts exactly "1" and "2"; the revision prompt
\* accepts "yes" and "no" in any letter case; every other input causes a
\* re-prompt with the state unchanged, and the prompt is answered at the first
\* accepted input.
C19_ClosedInputSets ==
    /\ last.op = "human_choice_node" => AnsweredAtFirst(IsChoice)
    /\ last.op = "human_review_node" => AnsweredAtFirst(IsYesNo)

C19_Witness ==
    /\ last.op = "human_review_node"
    /\ last.how = "ok"
    /\ last.script = <<<<"x">>, <<"No">>>>
    /\ ~state.needs_revision
    /\ state.sender = "human"

\* the scratch field that matches each node
MatchingField(name) ==
    CASE name = "hypothesis_agent" -> "hypothesis"
      [] name = "process_agent" -> "process_decision"
      [] name = "visualization_agent" -> "visualization_state"
      [] name = "searcher_agent" -> "searcher_state"
      [] name = "code_agent" -> "code_state"
      [] name = "report_agent" -> "report_section"
      [] name = "quality_review_agent" -> "quality_review"

\* C20: a successful agent_node execution for a recognized node leaves an
\* agent message authored by the node at the end of the history, sets sender
\* to the node name, and
\* writes the output into the one scratch field that matches the node
\* (code_state for the coding node), leaving the others as they were.
C20_WritesMatchingField ==
    (last.op = "agent_node" /\ last.how = "ok") =>
        /\ state.messages # <<>>
        /\ state.messages[Len(state.messages)] = AIMessage(last.text, last.name)
        /\ state.sender = last.name
        /\ TextOf(state[MatchingField(last.name)]) = last.text
        /\ OthersKept({MatchingField(last.name)})

\* the state after one more note_agent_node call with the reply of the last
SecondCompaction ==
    LET o == note_agent_node(state, [kind |-> last.kind, text |-> last.text,
                                     doc |-> last.doc], NoteName)
    IN  Commit(o.obj, o.ret)

\* C21: compaction is idempotent on the scratch fields: after a successful
\* note_agent_node, applying it once more with the same structured reply
\* yields the same scratch fields and the same needs_revision.
C21_CompactionIdempotent ==
    NoteSucceeded =>
        /\ SameScratch(SecondCompaction, state)
        /\ SecondCompaction.needs_revision = state.needs_revision

C21_Witness ==
    /\ NoteSucceeded
    /\ IsAIMessage(prev.hypothesis)
    /\ "hypothesis" \notin last.doc.present
    /\ state.hypothesis = PyStr(prev.hypothesis)
    /\ SecondCompaction.hypothesis = state.hypothesis

\* the set of the elements of a sequence
Range(seq) == {seq[i] : i \in 1..Len(seq)}

\* C22: the values the supervisor offers to the capability are exactly the
\* team members and FINISH, and the value the capability chose is handed on
\* as it is, whether or not it is one of them.
C22_OffersMembersAndFinish ==
    /\ supervisor.built =>
          Range(supervisor.options) = Range(supervisor.members) \cup {"FINISH"}
    /\ supervisor.invoked => supervisor.output = Dict("next", <<supervisor.chosen>>)

C22_Witness ==
    /\ supervisor.invoked
    /\ supervisor.members = <<"Coder", "Report">>
    /\ supervisor.chosen \notin Range(supervisor.options)
    /\ supervisor.output = Dict("next", <<"Nobody">>)

HoldsHypothesis(s) == Has(s, "hypothesis") /\ TextOf(s.hypothesis) # <<>>

ChoseRegenerate ==
    /\ last.op = "human_choice_node"
    /\ last.how = "ok"
    /\ \E i \in 1..Len(last.script) :
          IsFirst(i, IsChoice) /\ last.script[i] = <<"1">>

\* C23: once the hypothesis field holds a non-empty text no agent_node
\* execution, for any node name, successful or failed, changes it; only the
\* regenerate choice of human_choice_node or a compaction changes it.
C23_FirstWriteWins ==
    (HoldsHypothesis(prev) /\ state.hypothesis # prev.hypothesis) =>
        (ChoseRegenerate \/ last.op = "note_agent_node")

C23_Witness ==
    /\ last.op = "agent_node"
    /\ last.name = "hypothesis_agent"
    /\ last.how = "ok"
    /\ last.text = <<"Coder">>
    /\ TextOf(prev.hypothesis) = <<"X">>
    /\ state.hypothesis = prev.hypothesis

\* the text holds "revision needed" in some letter case
HoldsMarker(t) ==
    \E i \in 1..(Len(t) - 2) :
        /\ t[i] \in {"revision", "Revision", "REVISION"}
        /\ t[i + 1] = " "
        /\ t[i + 2] \in {"needed", "NEEDED"}

ReviewRan ==
    /\ last.op = "agent_node"
    /\ last.name = "quality_review_agent"
    /\ last.how = "ok"

\* C24: a successful agent_node execution of the quality-review node sets
\* needs_revision to true exactly when the output holds "revision needed" in
\* any letter case, and to false otherwise.
C24_ReviewDerivesRevision ==
    ReviewRan => (state.needs_revision <=> HoldsMarker(last.text))

C24_Witness ==
    /\ ReviewRan
    /\ last.text = <<"Revision", " ", "NEEDED">>
    /\ ~prev.needs_revision
    /\ state.needs_revision

\* where the revision branch of QualityReview_router leads
RevisionTarget(s) ==
    IF Has(s, "last_sender")
       /\ s.last_sender \in {"Visualization", "Search", "Coder", "Report"}
    THEN s.last_sender
    ELSE "NoteTaker"

\* where the decision branch of QualityReview_router leads
DecisionBranchTarget(s) ==
    IF Has(s, "process_decision")
       /\ TokenOf(TextOf(s.process_decision)) \in
             {"Visualization", "Search", "Coder", "Report", "QualityReview"}
    THEN TokenOf(TextOf(s.process_decision))
    ELSE "NoteTaker"

\* the latest message spells revision, and never in upper case
LowerCaseRevisionOnly(s) ==
    /\ s.messages # <<>>
    /\ LET c == s.messages[Len(s.messages)].content
       IN  /\ \E i \in 1..Len(c) : c[i] = "revision"
           /\ \A i \in 1..Len(c) : c[i] # "REVISION"

\* C25: after a successful quality-review run whose output holds the marker
\* in any letter case QualityReview_router takes the revision branch; on a
\* state whose needs_revision is false and whose latest message spells
\* revision in lower case only, it takes the decision branch.
C25_MarkerChecksDiffer ==
    /\ (ReviewRan /\ HoldsMarker(last.text)) =>
          QualityReview_router(state) = RevisionTarget(state)
    /\ (~state.needs_revision /\ LowerCaseRevisionOnly(state)) =>
          QualityReview_router(state) = DecisionBranchTarget(state)

C25_Witness ==
    /\ last.op = "agent_node"
    /\ last.name = "report_agent"
    /\ last.text = <<"revision", " ", "needed">>
    /\ ~state.needs_revision
    /\ TextOf(state.process_decision) = <<"Coder">>
    /\ QualityReview_router(state) = "Coder"

NodeOf(sender) ==
    CASE sender = "visualization_agent" -> "Visualization"
      [] sender = "searcher_agent" -> "Search"
      [] sender = "code_agent" -> "Coder"
      [] sender = "report_agent" -> "Report"

\* C27: when a revision condition holds after the visualization, search,
\* coding or report node produced the most recent update,
\* QualityReview_router returns that node.
C27_RevisionReturnsToProducer ==
    (/\ last.op = "agent_node"
     /\ last.how = "ok"
     /\ last.name \in {"visualization_agent", "searcher_agent", "code_agent",
                       "report_agent"}
     /\ RevisionSignal)
        => QualityReview_router(state) = NodeOf(last.name)

\* C28: in the hypothesis loop a successful hypothesis-node execution with
\* non-blank output makes hypothesis_router return "Process", whatever blank
\* text an earlier output or a compaction left in the field.
C28_BlankDoesNotBlock ==
    (/\ last.op = "agent_node"
     /\ last.name = "hypothesis_agent"
     /\ last.how = "ok"
     /\ HasVisibleText(last.text)
     /\ hypothesis_router(prev) = "Hypothesis")
        => hypothesis_router(state) = "Process"

\* process_decision is plain text, or an agent message with plain or
\* JSON-like content
ListedRepresentation(v) == IsStr(v) \/ IsAIMessage(v)

\* C29: with no revision condition, whenever process_router returns Coder,
\* Search, Visualization or Report, QualityReview_router returns the same
\* node.
C29_RoutersAgree ==
    (/\ RoutedBy("process_router")
     /\ ~RevisionSignal
     /\ Has(state, "process_decision")
     /\ ListedRepresentation(state.process_decision)
     /\ route.result \in {"Coder", "Search", "Visualization", "Report"})
        => QualityReview_router(state) = route.result

====
